---- MODULE Spec2Model ----
(***************************************************************************)
(* State-machine model of the init_system package (CasaOS-Common):         *)
(*   - NewInitManager, the backend selector;                                *)
(*   - SystemCtl, the backend that talks to the systemd daemon over D-Bus;  *)
(*   - OpenRc, the backend that runs /sbin/rc-service and /sbin/rc-update.  *)
(* Go strings are sequences of bytes; they are modelled as sequences of     *)
(* byte values (97 is 'a', 10 is '\n', ...).                                *)
(***************************************************************************)
EXTENDS Integers, Sequences, FiniteSets, TLC

\* ------------------------------------------------------------------ bounds
\* How many times ".service" is appended to a base name in the names tried.
MaxSuffixes == 2
\* The longest unit-file listing the daemon answers with.
MaxFiles == 2

\* --------------------------------------------------------- strings (bytes)
\* ".service"
Suffix == <<46, 115, 101, 114, 118, 105, 99, 101>>

RECURSIVE WithSuffixes(_, _)
WithSuffixes(base, k) == IF k = 0 THEN base ELSE WithSuffixes(base, k - 1) \o Suffix

\* The service names callers pass: "a", "a.service", "a.service.service", ...
Names == {WithSuffixes(<<97>>, k) : k \in 0..MaxSuffixes}

\* strings.HasSuffix
HasSuffix(s, suffix) ==
    /\ Len(s) >= Len(suffix)
    /\ SubSeq(s, Len(s) - Len(suffix) + 1, Len(s)) = suffix

\* strings.CutSuffix(s, suffix), the string it returns.
CutSuffix(s, suffix) ==
    IF HasSuffix(s, suffix) THEN SubSeq(s, 1, Len(s) - Len(suffix)) ELSE s

\* The last index of s holding byte b, 0 when there is none.
RECURSIVE LastIndexByte(_, _, _)
LastIndexByte(s, b, i) ==
    IF i = 0 THEN 0
    ELSE IF s[i] = b THEN i
    ELSE LastIndexByte(s, b, i - 1)

\* s without its trailing '/' bytes.
RECURSIVE StripTrailingSlashes(_)
StripTrailingSlashes(s) ==
    IF Len(s) > 0 /\ s[Len(s)] = 47
    THEN StripTrailingSlashes(SubSeq(s, 1, Len(s) - 1))
    ELSE s

\* filepath.Base on a Unix path.
Base(path) ==
    IF path = <<>> THEN <<46>>
    ELSE LET p == StripTrailingSlashes(path)
             i == LastIndexByte(p, 47, Len(p))
             q == IF i > 0 THEN SubSeq(p, i + 1, Len(p)) ELSE p
         IN  IF q = <<>> THEN <<47>> ELSE q

\* The decimal digits of n, as fmt prints an integer.
RECURSIVE Decimal(_)
Decimal(n) == IF n < 10 THEN <<48 + n>> ELSE Decimal(n \div 10) \o <<48 + (n % 10)>>

\* The bytes of b from index i on, each in decimal, separated by a space.
RECURSIVE SpacedDecimals(_, _)
SpacedDecimals(b, i) ==
    IF i > Len(b) THEN <<>>
    ELSE (IF i > 1 THEN <<32>> ELSE <<>>) \o Decimal(b[i]) \o SpacedDecimals(b, i + 1)

\* fmt.Sprint(out) for out of type []byte: the default format of a byte
\* slice, "[" the bytes in decimal separated by spaces "]".
Sprint(out) == <<91>> \o SpacedDecimals(out, 1) \o <<93>>

\* strings.Split(s, sep) for a one-byte separator: the pieces of s between
\* the separators, one more than there are separators.
RECURSIVE Split(_, _, _, _)
Split(s, sep, i, piece) ==
    IF i > Len(s) THEN <<piece>>
    ELSE IF s[i] = sep THEN <<piece>> \o Split(s, sep, i + 1, <<>>)
    ELSE Split(s, sep, i + 1, Append(piece, s[i]))

\* ---------------------------------------------------------- filepath.Match
\* The pattern syntax of path/filepath on Unix: '*' 42, '?' 63, '[' 91,
\* ']' 93, '\' 92, '^' 94, '-' 45, and the separator '/' 47.
Tl(s) == SubSeq(s, 2, Len(s))

\* Where scanChunk's scan of p stops: the length of the chunk.
RECURSIVE ScanEnd(_, _, _)
ScanEnd(p, i, inrange) ==
    IF i > Len(p) THEN Len(p)
    ELSE CASE p[i] = 92 -> ScanEnd(p, IF i + 1 <= Len(p) THEN i + 2 ELSE i + 1, inrange)
           [] p[i] = 91 -> ScanEnd(p, i + 1, TRUE)
           [] p[i] = 93 -> ScanEnd(p, i + 1, FALSE)
           [] p[i] = 42 -> IF inrange THEN ScanEnd(p, i + 1, inrange) ELSE i - 1
           [] OTHER -> ScanEnd(p, i + 1, inrange)

RECURSIVE SkipStars(_)
SkipStars(p) == IF p # <<>> /\ p[1] = 42 THEN SkipStars(Tl(p)) ELSE p

\* scanChunk: the leading stars, the chunk up to the next star, the rest.
ScanChunk(pattern) ==
    LET p == SkipStars(pattern)
        n == ScanEnd(p, 1, FALSE)
    IN  [star |-> Len(p) < Len(pattern),
         chunk |-> SubSeq(p, 1, n),
         rest |-> SubSeq(p, n + 1, Len(p))]

BadPattern == [r |-> 0, chunk |-> <<>>, match |-> FALSE, rest |-> <<>>,
               ok |-> FALSE, err |-> "ErrBadPattern"]

\* getEsc: the next (possibly escaped) byte of a character class.
GetEsc(chunk) ==
    IF chunk = <<>> \/ chunk[1] = 45 \/ chunk[1] = 93 THEN BadPattern
    ELSE LET c1 == IF chunk[1] = 92 THEN Tl(chunk) ELSE chunk IN
         IF c1 = <<>> \/ Tl(c1) = <<>> THEN BadPattern
         ELSE [BadPattern EXCEPT !.r = c1[1], !.chunk = Tl(c1), !.err = "nil"]

\* The ranges of a character class up to its closing ']', tried against r.
RECURSIVE ParseRanges(_, _, _, _)
ParseRanges(chunk, r, match, nrange) ==
    IF chunk # <<>> /\ chunk[1] = 93 /\ nrange > 0
    THEN [BadPattern EXCEPT !.chunk = Tl(chunk), !.match = match, !.err = "nil"]
    ELSE LET lo == GetEsc(chunk) IN
         IF lo.err # "nil" THEN BadPattern
         ELSE IF lo.chunk[1] = 45
              THEN LET hi == GetEsc(Tl(lo.chunk)) IN
                   IF hi.err # "nil" THEN BadPattern
                   ELSE ParseRanges(hi.chunk, r, match \/ (lo.r <= r /\ r <= hi.r),
                                    nrange + 1)
              ELSE ParseRanges(lo.chunk, r, match \/ r = lo.r, nrange + 1)

\* matchChunk: the chunk against the start of s. Once the match has failed
\* the chunk is still read to its end, to find a malformed pattern.
RECURSIVE MatchChunk(_, _, _)
\* A literal byte of the chunk (ch starts with it) against s.
MatchLiteral(ch, s, failed) ==
    MatchChunk(Tl(ch), IF failed THEN s ELSE Tl(s), failed \/ ch[1] # s[1])

\* A character class (chunk starts with its '[') against s.
MatchClass(chunk, s, failed) ==
    LET c1 == Tl(chunk)
        negated == c1 # <<>> /\ c1[1] = 94
        cls == ParseRanges(IF negated THEN Tl(c1) ELSE c1,
                           IF failed THEN 0 ELSE s[1], FALSE, 0)
    IN  IF cls.err # "nil" THEN BadPattern
        ELSE MatchChunk(cls.chunk, IF failed THEN s ELSE Tl(s),
                        failed \/ (cls.match = negated))

MatchChunk(chunk, s, wasFailed) ==
    IF chunk = <<>>
    THEN IF wasFailed THEN [BadPattern EXCEPT !.err = "nil"]
         ELSE [BadPattern EXCEPT !.rest = s, !.ok = TRUE, !.err = "nil"]
    ELSE CASE chunk[1] = 91 -> MatchClass(chunk, s, wasFailed \/ s = <<>>)
           [] chunk[1] = 63 ->
                MatchChunk(Tl(chunk), IF wasFailed \/ s = <<>> THEN s ELSE Tl(s),
                           wasFailed \/ s = <<>> \/ s[1] = 47)
           [] chunk[1] = 92 ->
                IF Tl(chunk) = <<>> THEN BadPattern
                ELSE MatchLiteral(Tl(chunk), s, wasFailed \/ s = <<>>)
           [] OTHER -> MatchLiteral(chunk, s, wasFailed \/ s = <<>>)

\* The check Match makes of the rest of the pattern before it answers false.
RECURSIVE CheckRest(_)
CheckRest(pattern) ==
    IF pattern = <<>> THEN [matched |-> FALSE, err |-> "nil"]
    ELSE IF MatchChunk(ScanChunk(pattern).chunk, <<>>, FALSE).err # "nil"
         THEN [matched |-> FALSE, err |-> "ErrBadPattern"]
         ELSE CheckRest(ScanChunk(pattern).rest)

\* filepath.Match(pattern, name): [matched, err].
RECURSIVE Match(_, _)
\* Match's loop for a chunk after a star: the chunk is tried after skipping
\* i+1 bytes of name, for i = 0, 1, ... up to the first separator.
RECURSIVE StarLoop(_, _, _, _)
StarLoop(chunk, rest, name, i) ==
    IF i < Len(name) /\ name[i + 1] # 47
    THEN IF MatchChunk(chunk, SubSeq(name, i + 2, Len(name)), FALSE).ok
         THEN IF rest = <<>>
                 /\ MatchChunk(chunk, SubSeq(name, i + 2, Len(name)), FALSE).rest # <<>>
              THEN StarLoop(chunk, rest, name, i + 1)
              ELSE Match(rest, MatchChunk(chunk, SubSeq(name, i + 2, Len(name)), FALSE).rest)
         ELSE IF MatchChunk(chunk, SubSeq(name, i + 2, Len(name)), FALSE).err # "nil"
              THEN [matched |-> FALSE, err |-> "ErrBadPattern"]
              ELSE StarLoop(chunk, rest, name, i + 1)
    ELSE CheckRest(rest)

\* One turn of Match's loop, for the scanned chunk sc and its match t at the
\* current position.
MatchTurn(sc, t, name) ==
    IF sc.star /\ sc.chunk = <<>>
    THEN [matched |-> \A k \in 1..Len(name) : name[k] # 47, err |-> "nil"]
    ELSE IF t.ok /\ (t.rest = <<>> \/ sc.rest # <<>>)
    THEN Match(sc.rest, t.rest)
    ELSE IF t.err # "nil" THEN [matched |-> FALSE, err |-> t.err]
    ELSE IF sc.star THEN StarLoop(sc.chunk, sc.rest, name, 0)
    ELSE CheckRest(sc.rest)

Match(pattern, name) ==
    IF pattern = <<>> THEN [matched |-> name = <<>>, err |-> "nil"]
    ELSE MatchTurn(ScanChunk(pattern),
                   MatchChunk(ScanChunk(pattern).chunk, name, FALSE), name)

\* ------------------------------------------------------- result taxonomy
ResultDone == "done"
ResultCanceled == "canceled"
ResultTimeout == "timeout"
ResultFailed == "failed"
ResultDependency == "dependency"
ResultSkipped == "skipped"

\* The error values; "nil" is Go's nil error.
ErrorMap ==
    [r \in {ResultDone, ResultCanceled, ResultTimeout, ResultFailed,
            ResultDependency, ResultSkipped} |->
        CASE r = ResultDone -> "nil"
          [] r = ResultCanceled -> "ErrorCanceled"
          [] r = ResultTimeout -> "ErrorTimeout"
          [] r = ResultFailed -> "ErrorFailed"
          [] r = ResultDependency -> "ErrorDependency"
          [] r = ResultSkipped -> "ErrorSkipped"]

ErrorUnknown == "ErrorUnknown"

\* JobError, taking the result "skipped" for success too.
JobErrorSkippedIsDone(result) ==
    IF result # ResultDone /\ result # ResultSkipped
    THEN IF result \in DOMAIN ErrorMap THEN ErrorMap[result] ELSE ErrorUnknown
    ELSE "nil"

\* JobError, returning what the map holds without looking at ok.
JobErrorNoOkCheck(result) ==
    IF result # ResultDone
    THEN IF result \in DOMAIN ErrorMap THEN ErrorMap[result] ELSE "nil"
    ELSE "nil"

\* What StartService and StopService return for the string received on the
\* completion channel.
JobError(result) ==
    IF result # ResultDone
    THEN IF result \in DOMAIN ErrorMap THEN ErrorMap[result] ELSE ErrorUnknown
    ELSE "nil"

\* The strings the daemon may put on a completion channel: the taxonomy and
\* strings outside it (the empty string among them).
JobResults ==
    {ResultDone, ResultCanceled, ResultTimeout, ResultFailed, ResultDependency,
     ResultSkipped, "", "collected"}


\* ------------------------------------------------------------------ state
\* The goroutines of the one process that call into the package.
Procs == {1, 2}

\* What unit properties ActiveState can read as.
ActiveStates == {"active", "inactive", "failed"}

\* The units the daemon knows: "a" and "a.service".
Units == {<<97>>, <<97>> \o Suffix}

\* The unit-file paths the daemon lists: "/a" and "/l/a.service".
UnitFilePaths == {<<47, 97>>, <<47, 108, 47, 97>> \o Suffix}

\* The listings the daemon may answer a list call with.
FileLists == UNION {[1..k -> UnitFilePaths] : k \in 0..MaxFiles}

\* The patterns callers pass to ListServices: "", "*", "a*", "?9*", "[".
Patterns == {<<>>, <<42>>, <<97, 42>>, <<63, 57, 42>>, <<91>>}

VARIABLES
    marker,     \* /run/systemd/system/ as the last os.Stat found it
    mgr,        \* the backend the last NewInitManager returned, "none" before
    stack,      \* per goroutine, the frames of the call in progress
    open,       \* the D-Bus connections that are open
    jobs,       \* the daemon's queued jobs, each with the channel to notify
    unitState,  \* the daemon's ActiveState of each unit
    log,        \* per goroutine, the remote calls and commands of its call and
                \* what the daemon did with its jobs; between calls, the
                \* selector's last invocations
    result,     \* per goroutine, what its last call returned
    started     \* <<goroutine, unit>> of the start job that last ended "done",
                \* while nothing else has happened to the unit and the
                \* goroutine has gone on to nothing but IsServiceRunning of it

vars == <<marker, mgr, stack, open, jobs, unitState, result, started, log>>

ConnIds == 1..(2 * Cardinality(Procs))

NoResult == [be |-> "none", op |-> "none", arg |-> <<>>, val |-> FALSE, services |-> <<>>, err |-> "nil"]

\* The frame a call starts with. SystemCtl methods begin by connecting
\* (context.WithTimeout, NewSystemdConnectionContext); OpenRc methods begin
\* with their body.
NewFrame(be, op, arg) ==
    [be |-> be, op |-> op, arg |-> arg,
     pc |-> IF be = "SystemCtl" THEN "connect" ELSE "body",
     conn |-> 0, expired |-> FALSE, ch |-> <<>>,
     files |-> <<>>, idx |-> 1, services |-> <<>>,
     val |-> FALSE, err |-> "nil"]

Depth(c) == Len(stack[c])
Top(c) == stack[c][Depth(c)]
At(c, be, op, pc) ==
    /\ Depth(c) > 0
    /\ Top(c).be = be
    /\ Top(c).op \in op
    /\ Top(c).pc = pc
SetTop(c, f) == [stack EXCEPT ![c][Depth(c)] = f]
Push(c, f, g) == [stack EXCEPT ![c] = Append([@ EXCEPT ![Depth(c)] = f], g)]
\* log is the history of a goroutine's call: the connections tried, the
\* remote calls and commands made, the methods called and their returns,
\* each with its argument, its error and what it gave back.
Entry(call, arg, err, out) == [call |-> call, arg |-> arg, err |-> err, out |-> out]
Logged(c, entries) == [log EXCEPT ![c] = @ \o entries]
Failed(f, e) == [f EXCEPT !.err = e, !.pc = "return"]

\* How a remote call made with the frame's context ends: with the context's
\* deadline exceeded it fails; before that it succeeds or fails remotely.
RpcOutcomes(f) == IF f.expired THEN {"ErrDeadline"} ELSE {"nil", "ErrRemote"}

Init ==
    /\ marker = "none"
    /\ mgr = "none"
    /\ stack = [c \in Procs |-> <<>>]
    /\ open = {}
    /\ jobs = {}
    /\ unitState \in [Units -> ActiveStates]
    /\ log = [c \in Procs |-> <<>>]
    /\ result = [c \in Procs |-> NoResult]
    /\ started = <<>>

\* --------------------------------------------------------------- selector
\* os.Stat("/run/systemd/system/"): its error.
Stat(m) ==
    CASE m = "present" -> "nil"
      [] m = "absent" -> "ENOENT"
      [] m = "unreadable" -> "EACCES"

\* os.IsNotExist
IsNotExist(err) == err = "ENOENT"

\* SelectBackend, taking every error of os.Stat for absence.
SelectBackendOnAnyError(err) == IF err # "nil" THEN "OpenRc" ELSE "SystemCtl"

\* The backend NewInitManager returns for the error os.Stat gave.
SelectBackend(err) == IF IsNotExist(err) THEN "OpenRc" ELSE "SystemCtl"

\* started, once goroutine c has gone on to something else (u is any unit) or
\* something has happened to unit u (c is any goroutine).
Untouched(st, cs, us) ==
    IF st # <<>> /\ st[1] \in cs /\ st[2] \in us THEN <<>> ELSE st

\* The selector's last invocation, if nothing was called since: a goroutine's
\* history holds the selector's last two invocations while no method is called.
PriorSelection(c) ==
    IF log[c] # <<>> /\ log[c][Len(log[c])].call = "NewInitManager"
    THEN <<log[c][Len(log[c])]>> ELSE <<>>

\* NewInitManager, keeping the backend it chose the first time.
NewInitManagerCached(c, m) ==
    /\ stack[c] = <<>>
    /\ marker' = m
    /\ mgr' = IF mgr # "none" THEN mgr ELSE SelectBackend(Stat(m))
    /\ result' = [result EXCEPT ![c] = NoResult]
    /\ started' = Untouched(started, {c}, Units)
    /\ log' = [log EXCEPT ![c] =
                  PriorSelection(c)
                  \o <<Entry("NewInitManager", m, Stat(m),
                             IF mgr # "none" THEN mgr ELSE SelectBackend(Stat(m)))>>]
    /\ UNCHANGED <<stack, open, jobs, unitState>>

\* NewInitManager, with the marker directory in state m when it is probed:
\* every invocation calls os.Stat and chooses by its error.
NewInitManager(c, m) ==
    /\ stack[c] = <<>>
    /\ marker' = m
    /\ mgr' = SelectBackend(Stat(m))
    /\ result' = [result EXCEPT ![c] = NoResult]
    /\ started' = Untouched(started, {c}, Units)
    /\ log' = [log EXCEPT ![c] =
                  PriorSelection(c)
                  \o <<Entry("NewInitManager", m, Stat(m), SelectBackend(Stat(m)))>>]
    /\ UNCHANGED <<stack, open, jobs, unitState>>

\* ------------------------------------------------------------------ calls
Ops ==
    {"ListServices", "IsServiceEnabled", "IsServiceRunning", "EnableService",
     "DisableService", "StartService", "StopService", "Reload"}

\* The arguments tried: patterns for ListServices (SystemCtl hands a pattern
\* other than "" and "*" to the daemon as it is), the daemon's units for
\* SystemCtl, names with and without ".service" suffixes for OpenRc.
ArgsOf(be, op) ==
    CASE op = "ListServices" ->
            IF be = "SystemCtl" THEN {<<>>, <<42>>, <<97, 42>>} ELSE Patterns
      [] op = "Reload" -> {<<>>}
      [] OTHER -> IF be = "SystemCtl" THEN Units ELSE Names

\* The call is SystemCtl's IsServiceRunning of the unit that the StartService
\* the goroutine has just returned nil from started.
FollowsStart(c, op, arg) ==
    /\ mgr = "SystemCtl"
    /\ op = "IsServiceRunning"
    /\ started = <<c, arg>>
    /\ result[c].be = "SystemCtl"
    /\ result[c].op = "StartService"
    /\ result[c].arg = arg
    /\ result[c].err = "nil"

\* A goroutine calls a method of the manager it holds.
Call(c, op, arg) ==
    /\ stack[c] = <<>>
    /\ mgr # "none"
    /\ stack' = [stack EXCEPT ![c] = <<NewFrame(mgr, op, arg)>>]
    /\ log' = [log EXCEPT ![c] = <<>>]
    /\ result' = [result EXCEPT ![c] = NoResult]
    /\ started' = IF FollowsStart(c, op, arg) THEN started
                  ELSE Untouched(started, {c}, Units)
    /\ UNCHANGED <<marker, mgr, open, jobs, unitState>>

\* ------------------------------------------------------ SystemCtl (D-Bus)
\* The first step of a SystemCtl method after connecting.
FirstStep(op) ==
    CASE op = "ListServices" -> "list"
      [] op \in {"IsServiceEnabled", "IsServiceRunning"} -> "getprop"
      [] op = "EnableService" -> "enable"
      [] op = "DisableService" -> "getprops"
      [] op \in {"StartService", "StopService"} -> "request"
      [] op = "Reload" -> "reload"

FreeConn == CHOOSE i \in ConnIds : i \notin open /\ \A j \in ConnIds : j < i => j \in open

\* dbus.NewSystemdConnectionContext(ctx), and defer conn.Close() on success.
NewSystemdConnection(c) ==
    /\ At(c, "SystemCtl", Ops, "connect")
    /\ \E e \in IF Top(c).expired THEN {"ErrDeadline"} ELSE {"nil", "ErrConnect"} :
          /\ log' = Logged(c, <<Entry("NewSystemdConnection", Top(c).op, e, "")>>)
          /\ IF e = "nil"
             THEN /\ open' = open \cup {FreeConn}
                  /\ stack' = SetTop(c, [Top(c) EXCEPT !.conn = FreeConn,
                                                      !.pc = FirstStep(Top(c).op)])
             ELSE /\ open' = open
                  /\ stack' = SetTop(c, Failed(Top(c), e))
    /\ UNCHANGED <<marker, mgr, jobs, unitState, result, started>>

\* conn.ListUnitFilesContext / conn.ListUnitFilesByPatternsContext
ListUnitFiles(c) ==
    /\ At(c, "SystemCtl", {"ListServices"}, "list")
    /\ LET f == Top(c)
           call == IF f.arg = <<>> \/ f.arg = <<42>>
                   THEN "ListUnitFiles" ELSE "ListUnitFilesByPatterns"
       IN  \E e \in RpcOutcomes(f) :
             IF e = "nil"
             THEN \E fl \in FileLists :
                    /\ log' = Logged(c, <<Entry(call, f.arg, e, fl)>>)
                    /\ stack' = SetTop(c, [f EXCEPT !.files = fl, !.idx = 1,
                                                    !.pc = "loop"])
             ELSE /\ log' = Logged(c, <<Entry(call, f.arg, e, <<>>)>>)
                  /\ stack' = SetTop(c, Failed(f, e))
    /\ UNCHANGED <<marker, mgr, open, jobs, unitState, result, started>>

\* One turn of ListServices' loop over files: call s.IsServiceRunning on the
\* base name of the next file, or return the services when none is left.
ListServicesLoop(c) ==
    /\ At(c, "SystemCtl", {"ListServices"}, "loop")
    /\ LET f == Top(c) IN
         IF f.idx > Len(f.files)
         THEN /\ stack' = SetTop(c, [f EXCEPT !.pc = "return"])
              /\ log' = log
         ELSE /\ stack' = Push(c, [f EXCEPT !.pc = "called"],
                               NewFrame("SystemCtl", "IsServiceRunning", Base(f.files[f.idx])))
              /\ log' = Logged(c, <<Entry("call", Base(f.files[f.idx]), "nil", "IsServiceRunning")>>)
    /\ UNCHANGED <<marker, mgr, open, jobs, unitState, result, started>>

\* ProbedService, with "or" for "and".
ProbedServiceErrOrRunning(name, running, err) ==
    [Name |-> name, Running |-> err = "nil" \/ running]

\* The InitService ListServices appends for a probed unit.
ProbedService(name, running, err) ==
    [Name |-> name, Running |-> err = "nil" /\ running]

\* IsServiceEnabled: conn.GetUnitPropertyContext(ctx, name, "UnitFileState")
GetUnitFileState(c) ==
    /\ At(c, "SystemCtl", {"IsServiceEnabled"}, "getprop")
    /\ LET f == Top(c) IN
         /\ \E e \in RpcOutcomes(f) :
              IF e = "nil"
              THEN \E v \in {"enabled", "disabled", "static"} :
                     /\ log' = Logged(c, <<Entry("GetUnitProperty:UnitFileState", f.arg, e, v)>>)
                     /\ stack' = SetTop(c, [f EXCEPT !.val = (v = "enabled"),
                                                     !.pc = "return"])
              ELSE /\ log' = Logged(c, <<Entry("GetUnitProperty:UnitFileState", f.arg, e, "")>>)
                   /\ stack' = SetTop(c, Failed(f, e))
    /\ UNCHANGED <<marker, mgr, open, jobs, unitState, result, started>>

\* IsActive, comparing with "running" (which is a SubState).
IsActiveRunning(value) == value = "running"

\* IsServiceRunning's answer for the ActiveState it read.
IsActive(value) == value = "active"

\* IsServiceRunning: conn.GetUnitPropertyContext(ctx, name, "ActiveState")
GetActiveState(c) ==
    /\ At(c, "SystemCtl", {"IsServiceRunning"}, "getprop")
    /\ LET f == Top(c) IN
         /\ \E e \in RpcOutcomes(f) :
              /\ log' = Logged(c, <<Entry("GetUnitProperty:ActiveState", f.arg, e,
                                           IF e = "nil" THEN unitState[f.arg] ELSE "")>>)
              /\ IF e = "nil"
                 THEN stack' = SetTop(c, [f EXCEPT !.val = IsActive(unitState[f.arg]),
                                                   !.pc = "return"])
                 ELSE stack' = SetTop(c, Failed(f, e))
    /\ UNCHANGED <<marker, mgr, open, jobs, unitState, result, started>>

\* EnableUnitFiles, going on to the ActiveState read whatever the error.
EnableUnitFilesGoingOn(c) ==
    /\ At(c, "SystemCtl", {"EnableService"}, "enable")
    /\ LET f == Top(c) IN
         /\ \E e \in RpcOutcomes(f) :
              /\ log' = Logged(c, <<Entry("EnableUnitFiles", f.arg, e, "")>>)
              /\ stack' = SetTop(c, [f EXCEPT !.pc = "getprop"])
    /\ UNCHANGED <<marker, mgr, open, jobs, unitState, result, started>>

\* EnableService: conn.EnableUnitFilesContext(ctx, {name}, false, true)
EnableUnitFiles(c) ==
    /\ At(c, "SystemCtl", {"EnableService"}, "enable")
    /\ LET f == Top(c) IN
         /\ \E e \in RpcOutcomes(f) :
              /\ log' = Logged(c, <<Entry("EnableUnitFiles", f.arg, e, "")>>)
              /\ IF e = "nil"
                 THEN stack' = SetTop(c, [f EXCEPT !.pc = "getprop"])
                 ELSE stack' = SetTop(c, Failed(f, e))
    /\ UNCHANGED <<marker, mgr, open, jobs, unitState, result, started>>

\* EnableMustStart, asking whether the unit is inactive.
EnableMustStartIfInactive(value) == value = "inactive"

\* Whether EnableService goes on to StartService for the ActiveState it read.
EnableMustStart(value) == value # "active"

\* EnableService: the ActiveState read, then StartService unless active.
EnableCheckActive(c) ==
    /\ At(c, "SystemCtl", {"EnableService"}, "getprop")
    /\ LET f == Top(c) IN
         /\ \E e \in RpcOutcomes(f) :
              /\ log' = Logged(c,
                    <<Entry("GetUnitProperty:ActiveState", f.arg, e,
                            IF e = "nil" THEN unitState[f.arg] ELSE "")>>
                    \o IF e = "nil" /\ EnableMustStart(unitState[f.arg])
                       THEN <<Entry("call", f.arg, "nil", "StartService")>> ELSE <<>>)
              /\ IF e = "nil"
                 THEN IF EnableMustStart(unitState[f.arg])
                      THEN stack' = Push(c, [f EXCEPT !.pc = "called"],
                                         NewFrame("SystemCtl", "StartService", f.arg))
                      ELSE stack' = SetTop(c, [f EXCEPT !.pc = "return"])
                 ELSE stack' = SetTop(c, Failed(f, e))
    /\ UNCHANGED <<marker, mgr, open, jobs, unitState, result, started>>

\* DisableMustStop, never stopping.
DisableNeverStops(value) == FALSE

\* Whether DisableService stops the unit instead of disabling it.
DisableMustStop(value) == value = "active"

\* DisableService: conn.GetUnitPropertiesContext, then StopService if active.
DisableCheckActive(c) ==
    /\ At(c, "SystemCtl", {"DisableService"}, "getprops")
    /\ LET f == Top(c) IN
         /\ \E e \in RpcOutcomes(f) :
              /\ log' = Logged(c,
                    <<Entry("GetUnitProperties", f.arg, e,
                            IF e = "nil" THEN unitState[f.arg] ELSE "")>>
                    \o IF e = "nil" /\ DisableMustStop(unitState[f.arg])
                       THEN <<Entry("call", f.arg, "nil", "StopService")>> ELSE <<>>)
              /\ IF e = "nil"
                 THEN IF DisableMustStop(unitState[f.arg])
                      THEN stack' = Push(c, [f EXCEPT !.pc = "called"],
                                         NewFrame("SystemCtl", "StopService", f.arg))
                      ELSE stack' = SetTop(c, [f EXCEPT !.pc = "disable"])
                 ELSE stack' = SetTop(c, Failed(f, e))
    /\ UNCHANGED <<marker, mgr, open, jobs, unitState, result, started>>

\* DisableService: conn.DisableUnitFilesContext(ctx, {name}, false)
DisableUnitFiles(c) ==
    /\ At(c, "SystemCtl", {"DisableService"}, "disable")
    /\ LET f == Top(c) IN
         /\ \E e \in RpcOutcomes(f) :
              /\ log' = Logged(c, <<Entry("DisableUnitFiles", f.arg, e, "")>>)
              /\ stack' = SetTop(c, Failed(f, e))
    /\ UNCHANGED <<marker, mgr, open, jobs, unitState, result, started>>

\* StartService / StopService: ch := make(chan string), then
\* conn.StartUnitContext / conn.StopUnitContext(ctx, name, "replace", ch).
\* An accepted request queues a job that will notify ch.
StartStopUnit(c) ==
    /\ At(c, "SystemCtl", {"StartService", "StopService"}, "request")
    /\ LET f == Top(c)
           call == IF f.op = "StartService" THEN "StartUnit" ELSE "StopUnit"
       IN  \E e \in RpcOutcomes(f) :
             /\ log' = Logged(c, <<Entry(call, f.arg, e, "")>>)
             /\ IF e = "nil"
                THEN /\ stack' = SetTop(c, [f EXCEPT !.pc = "wait"])
                     /\ jobs' = jobs \cup {[proc |-> c, depth |-> Depth(c),
                                            call |-> call, unit |-> f.arg]}
                ELSE /\ stack' = SetTop(c, Failed(f, e))
                     /\ jobs' = jobs
    /\ UNCHANGED <<marker, mgr, open, unitState, result, started>>

\* result := <-ch, and the error the result resolves to. The receive has no
\* alternative: it waits for a value on ch whatever the context's state.
ReceiveResult(c) ==
    /\ At(c, "SystemCtl", {"StartService", "StopService"}, "wait")
    /\ Top(c).ch # <<>>
    /\ stack' = SetTop(c, [Top(c) EXCEPT !.err = JobError(Top(c).ch[1]),
                                         !.pc = "return"])
    /\ log' = Logged(c, <<Entry("<-ch", Top(c).arg, "nil", Top(c).ch[1])>>)
    /\ UNCHANGED <<marker, mgr, open, jobs, unitState, result, started>>

\* Reload: conn.ReloadContext(ctx)
ReloadDaemon(c) ==
    /\ At(c, "SystemCtl", {"Reload"}, "reload")
    /\ LET f == Top(c) IN
         /\ \E e \in RpcOutcomes(f) :
              /\ log' = Logged(c, <<Entry("Reload", f.arg, e, "")>>)
              /\ stack' = SetTop(c, Failed(f, e))
    /\ UNCHANGED <<marker, mgr, open, jobs, unitState, result, started>>

\* The frame's context reaches its 30 s deadline. (A method makes no call
\* with its context once it has called another method of the package or is
\* returning, so the deadline is of no effect then.)
DeadlineExceeded(c, d) ==
    /\ d \in 1..Depth(c)
    /\ stack[c][d].be = "SystemCtl"
    /\ ~stack[c][d].expired
    /\ stack[c][d].pc \notin {"called", "loop", "return"}
    /\ stack' = [stack EXCEPT ![c][d].expired = TRUE]
    /\ UNCHANGED <<marker, mgr, open, jobs, unitState, log, result, started>>

\* ----------------------------------------------------------------- daemon
\* The unit's ActiveState after a job that ended with the given result.
StateAfterJob(call, r, old) ==
    IF r # ResultDone THEN old
    ELSE IF call = "StartUnit" THEN "active" ELSE "inactive"

\* JobChannel, were there one channel for all the requests (the first
\* goroutine's).
JobChannelShared(j) == <<1, j.depth>>

\* The channel a finished job's result is sent on: the one given with the
\* request that queued the job, which each StartService and StopService
\* makes for itself.
JobChannel(j) == <<j.proc, j.depth>>

\* The daemon finishes a job (JobRemoved) and the result is sent on its
\* channel. The history of the goroutine that requested the job notes it.
JobRemoved(j, r) ==
    /\ j \in jobs
    /\ jobs' = jobs \ {j}
    /\ LET ch == JobChannel(j) IN
         stack' = [stack EXCEPT ![ch[1]][ch[2]].ch = <<r>>]
    /\ log' = Logged(j.proc, <<Entry("JobRemoved", j.unit, "nil", r)>>)
    /\ unitState' = [unitState EXCEPT ![j.unit] = StateAfterJob(j.call, r, @)]
    /\ started' = IF j.call = "StartUnit" /\ r = ResultDone THEN <<j.proc, j.unit>>
                  ELSE Untouched(started, Procs, {j.unit})
    /\ UNCHANGED <<marker, mgr, open, result>>

\* Something else changes a unit's state.
UnitStateChange(u, s) ==
    /\ unitState[u] # s
    /\ unitState' = [unitState EXCEPT ![u] = s]
    /\ started' = Untouched(started, Procs, {u})
    /\ UNCHANGED <<marker, mgr, stack, open, jobs, log, result>>

\* ------------------------------------------------- OpenRc (commands)
\* How running a command ends: exit status 0, a non-zero exit status
\* (*exec.ExitError), or the command could not be run (exec.ErrNotFound).
ExecErrors == {"nil", "ExitError", "ErrNotFound"}

\* What /sbin/rc-service --list prints: "", "a\n", "a\nb\n", ...
RECURSIVE ListOutput(_)
ListOutput(k) == IF k = 0 THEN <<>> ELSE ListOutput(k - 1) \o <<96 + k, 10>>
ListOutputs == {ListOutput(k) : k \in 0..MaxFiles}

\* RcServiceArgs, with the name as it was passed.
RcServiceArgsUnstripped(name, command) ==
    LET quiet == IF command # "list" THEN <<<<45, 45, 113, 117, 105, 101, 116>>>> ELSE <<>>
    IN  CASE command = "start" -> quiet \o <<name, <<115, 116, 97, 114, 116>>>>
          [] command = "stop" -> quiet \o <<name, <<115, 116, 111, 112>>>>
          [] command = "status" -> quiet \o <<name, <<115, 116, 97, 116, 117, 115>>>>
          [] command = "list" -> quiet \o <<<<45, 45, 108, 105, 115, 116>>>>

\* The arguments RcService gives /sbin/rc-service: "--quiet" unless listing,
\* then the name without a ".service" suffix and the verb, or "--list".
RcServiceArgs(name, command) ==
    LET quiet == IF command # "list" THEN <<<<45, 45, 113, 117, 105, 101, 116>>>> ELSE <<>>
        n == CutSuffix(name, Suffix)
    IN  CASE command = "start" -> quiet \o <<n, <<115, 116, 97, 114, 116>>>>
          [] command = "stop" -> quiet \o <<n, <<115, 116, 111, 112>>>>
          [] command = "status" -> quiet \o <<n, <<115, 116, 97, 116, 117, 115>>>>
          [] command = "list" -> quiet \o <<<<45, 45, 108, 105, 115, 116>>>>

\* The arguments RcUpdate gives /sbin/rc-update:
\* "--quiet", the command ("add" or "del"), the name, the runlevel.
RcUpdateArgs(command, name, runlevel) ==
    <<<<45, 45, 113, 117, 105, 101, 116>>, command, name, runlevel>>

\* RcServiceStatus, reporting a non-zero exit as the failed job outcome.
RcServiceStatusAsFailed(err) ==
    IF err # "nil"
    THEN IF err = "ExitError" THEN [val |-> FALSE, err |-> "ErrorFailed"]
         ELSE [val |-> FALSE, err |-> err]
    ELSE [val |-> TRUE, err |-> "nil"]

\* RcServiceStatus, without the case of *exec.ExitError.
RcServiceStatusNoExitError(err) ==
    IF err # "nil" THEN [val |-> FALSE, err |-> err] ELSE [val |-> TRUE, err |-> "nil"]

\* RcServiceStatus: what it returns for the error of the status command.
RcServiceStatus(err) ==
    IF err # "nil"
    THEN IF err = "ExitError" THEN [val |-> FALSE, err |-> "nil"]
         ELSE [val |-> FALSE, err |-> err]
    ELSE [val |-> TRUE, err |-> "nil"]

\* RcServiceList: the names it makes of the list command's output.
RcServiceList(out) == Split(Sprint(out), 10, 1, <<>>)

\* ListServices' loop that keeps the names matching the pattern, writing
\* them over the front of svc_list; i is the index read, n the count kept.
RECURSIVE FilterLoop(_, _, _, _)
FilterLoop(pattern, svc_list, i, n) ==
    IF i > Len(svc_list) THEN [list |-> SubSeq(svc_list, 1, n), err |-> "nil"]
    ELSE LET m == Match(pattern, svc_list[i]) IN
         IF m.err # "nil" THEN [list |-> <<>>, err |-> m.err]
         ELSE IF m.matched
              THEN FilterLoop(pattern, [svc_list EXCEPT ![n + 1] = svc_list[i]], i + 1, n + 1)
              ELSE FilterLoop(pattern, svc_list, i + 1, n)

\* FilterServices, with "or" for "and" in the test of the pattern.
FilterServicesOrForAnd(pattern, svc_list) ==
    IF pattern # <<>> \/ pattern # <<42>>
    THEN FilterLoop(pattern, svc_list, 1, 0)
    ELSE [list |-> svc_list, err |-> "nil"]

\* The names ListServices goes on to probe.
FilterServices(pattern, svc_list) ==
    IF pattern # <<>> /\ pattern # <<42>>
    THEN FilterLoop(pattern, svc_list, 1, 0)
    ELSE [list |-> svc_list, err |-> "nil"]

\* ListServices up to its probing loop: RcServiceList, then the filter.
OpenRcListServices(c) ==
    /\ At(c, "OpenRc", {"ListServices"}, "body")
    /\ LET f == Top(c) IN
         \E e \in ExecErrors :
           IF e = "nil"
           THEN \E out \in ListOutputs :
                  LET kept == FilterServices(f.arg, RcServiceList(out)) IN
                    /\ log' = Logged(c, <<Entry("/sbin/rc-service",
                                                RcServiceArgs(<<>>, "list"), e, out)>>)
                    /\ IF kept.err = "nil"
                       THEN stack' = SetTop(c, [f EXCEPT !.files = kept.list, !.idx = 1,
                                                         !.pc = "loop"])
                       ELSE stack' = SetTop(c, Failed(f, kept.err))
           ELSE /\ log' = Logged(c, <<Entry("/sbin/rc-service",
                                            RcServiceArgs(<<>>, "list"), e, <<>>)>>)
                /\ stack' = SetTop(c, Failed(f, e))
    /\ UNCHANGED <<marker, mgr, open, jobs, unitState, result, started>>

\* One turn of ListServices' loop over svc_list: call rc.IsServiceRunning on
\* the next name, or return the services when none is left.
OpenRcListServicesLoop(c) ==
    /\ At(c, "OpenRc", {"ListServices"}, "loop")
    /\ LET f == Top(c) IN
         IF f.idx > Len(f.files)
         THEN /\ stack' = SetTop(c, [f EXCEPT !.pc = "return"])
              /\ log' = log
         ELSE /\ stack' = Push(c, [f EXCEPT !.pc = "called"],
                               NewFrame("OpenRc", "IsServiceRunning", f.files[f.idx]))
              /\ log' = Logged(c, <<Entry("call", f.files[f.idx], "nil", "IsServiceRunning")>>)
    /\ UNCHANGED <<marker, mgr, open, jobs, unitState, result, started>>

\* OpenRcProbed, going on whatever the error.
OpenRcProbedIgnoringError(f, running, err) ==
    [f EXCEPT !.services = Append(@, [Name |-> f.files[f.idx], Running |-> running]),
              !.idx = @ + 1, !.pc = "loop"]

\* ListServices once rc.IsServiceRunning has returned (running, err).
OpenRcProbed(f, running, err) ==
    IF err # "nil" THEN Failed(f, err)
    ELSE [f EXCEPT !.services = Append(@, [Name |-> f.files[f.idx], Running |-> running]),
                   !.idx = @ + 1, !.pc = "loop"]

\* IsServiceRunning: RcServiceStatus, which runs the status command.
OpenRcIsServiceRunning(c) ==
    /\ At(c, "OpenRc", {"IsServiceRunning"}, "body")
    /\ LET f == Top(c) IN
         \E e \in ExecErrors :
           /\ log' = Logged(c, <<Entry("/sbin/rc-service", RcServiceArgs(f.arg, "status"), e, <<>>)>>)
           /\ stack' = SetTop(c, [f EXCEPT !.val = RcServiceStatus(e).val,
                                           !.err = RcServiceStatus(e).err,
                                           !.pc = "return"])
    /\ UNCHANGED <<marker, mgr, open, jobs, unitState, result, started>>

\* IsServiceEnabled: false, nil.
OpenRcIsServiceEnabled(c) ==
    /\ At(c, "OpenRc", {"IsServiceEnabled"}, "body")
    /\ stack' = SetTop(c, [Top(c) EXCEPT !.val = FALSE, !.pc = "return"])
    /\ UNCHANGED <<marker, mgr, open, jobs, unitState, log, result, started>>

\* EnableService / DisableService: RcUpdate("add" / "del", name, "default").
OpenRcUpdate(c) ==
    /\ At(c, "OpenRc", {"EnableService", "DisableService"}, "body")
    /\ LET f == Top(c)
           command == IF f.op = "EnableService" THEN <<97, 100, 100>> ELSE <<100, 101, 108>>
       IN  \E e \in ExecErrors :
             /\ log' = Logged(c, <<Entry("/sbin/rc-update",
                              RcUpdateArgs(command, f.arg, <<100, 101, 102, 97, 117, 108, 116>>),
                              e, <<>>)>>)
             /\ stack' = SetTop(c, Failed(f, e))
    /\ UNCHANGED <<marker, mgr, open, jobs, unitState, result, started>>

\* StartService / StopService: RcServiceStart / RcServiceStop, which return
\* the error of RcService(name, cmdStart / cmdStop).
OpenRcStartStop(c) ==
    /\ At(c, "OpenRc", {"StartService", "StopService"}, "body")
    /\ LET f == Top(c)
           command == IF f.op = "StartService" THEN "start" ELSE "stop"
       IN  \E e \in ExecErrors :
             /\ log' = Logged(c, <<Entry("/sbin/rc-service", RcServiceArgs(f.arg, command), e, <<>>)>>)
             /\ stack' = SetTop(c, Failed(f, e))
    /\ UNCHANGED <<marker, mgr, open, jobs, unitState, result, started>>

\* Reload: nothing to do.
OpenRcReload(c) ==
    /\ At(c, "OpenRc", {"Reload"}, "body")
    /\ stack' = SetTop(c, [Top(c) EXCEPT !.pc = "return"])
    /\ UNCHANGED <<marker, mgr, open, jobs, unitState, log, result, started>>

\* ----------------------------------------------------------------- return
\* CloseDeferred, with conn.Close() at the end of the method and not deferred.
CloseOnSuccess(f, conns) == IF f.conn # 0 /\ f.err = "nil" THEN conns \ {f.conn} ELSE conns

\* CloseDeferred, with no conn.Close() at all.
CloseNever(f, conns) == conns

\* The connections open once the frame's deferred conn.Close() has run.
CloseDeferred(f, conns) == IF f.conn # 0 THEN conns \ {f.conn} ELSE conns

\* The caller's frame once the call it made has returned g.
Resume(f, g) ==
    CASE f.op = "ListServices" /\ f.be = "SystemCtl" ->
            [f EXCEPT !.services = Append(@, ProbedService(Base(f.files[f.idx]), g.val, g.err)),
                      !.idx = @ + 1, !.pc = "loop"]
      [] f.op = "ListServices" /\ f.be = "OpenRc" -> OpenRcProbed(f, g.val, g.err)
      [] OTHER -> [f EXCEPT !.err = g.err, !.pc = "return"]

\* A method returns: its deferred calls run, and its caller goes on.
Return(c) ==
    /\ Depth(c) > 0
    /\ Top(c).pc = "return"
    /\ LET g == Top(c) IN
         /\ open' = CloseDeferred(g, open)
         /\ IF Depth(c) = 1
            THEN /\ stack' = [stack EXCEPT ![c] = <<>>]
                 /\ result' = [result EXCEPT ![c] =
                        [be |-> g.be, op |-> g.op, arg |-> g.arg, val |-> g.val,
                         services |-> IF g.err = "nil" THEN g.services ELSE <<>>,
                         err |-> g.err]]
            ELSE /\ stack' = [stack EXCEPT ![c] =
                        [i \in 1..(Depth(c) - 1) |->
                            IF i = Depth(c) - 1 THEN Resume(stack[c][i], g)
                            ELSE stack[c][i]]]
                 /\ result' = result
         /\ log' = Logged(c, <<Entry("return", g.op, g.err, g.val)>>)
    /\ UNCHANGED <<marker, mgr, jobs, unitState, started>>

\* ------------------------------------------------------------------- spec
Step(c) ==
    \/ \E m \in {"present", "absent", "unreadable"} : NewInitManager(c, m)
    \/ \E op \in Ops : \E arg \in ArgsOf(mgr, op) : Call(c, op, arg)
    \/ NewSystemdConnection(c)
    \/ ListUnitFiles(c)
    \/ ListServicesLoop(c)
    \/ GetUnitFileState(c)
    \/ GetActiveState(c)
    \/ EnableUnitFiles(c)
    \/ EnableCheckActive(c)
    \/ DisableCheckActive(c)
    \/ DisableUnitFiles(c)
    \/ StartStopUnit(c)
    \/ ReceiveResult(c)
    \/ ReloadDaemon(c)
    \/ OpenRcListServices(c)
    \/ OpenRcListServicesLoop(c)
    \/ OpenRcIsServiceRunning(c)
    \/ OpenRcIsServiceEnabled(c)
    \/ OpenRcUpdate(c)
    \/ OpenRcStartStop(c)
    \/ OpenRcReload(c)
    \/ Return(c)

Next ==
    \/ Step(1)
    \/ \E d \in 1..2 : DeadlineExceeded(1, d)
    \/ \E j \in jobs : \E r \in JobResults : JobRemoved(j, r)
    \/ \E u \in Units : \E s \in ActiveStates : UnitStateChange(u, s)

Spec == Init /\ [][Next]_vars

\* A goroutine's steps are taken while it can take one, and time passes, so
\* a context's deadline comes. Nothing makes the daemon finish a job.
FairSpec ==
    /\ Spec
    /\ WF_vars(Step(1))
    /\ WF_vars(\E d \in 1..2 : DeadlineExceeded(1, d))

\* Two goroutines of the process call StartService and StopService of the
\* SystemCtl manager at the same time; their steps interleave, and the
\* daemon finishes the jobs in any order, each with one of ConcResults. (The
\* units change state through these jobs only.)
ConcResults == {ResultDone, ResultFailed, ResultTimeout, ""}

ConcStep(c) ==
    \/ \E op \in {"StartService", "StopService"} : \E arg \in Units :
          mgr = "SystemCtl" /\ Call(c, op, arg)
    \/ NewSystemdConnection(c)
    \/ StartStopUnit(c)
    \/ ReceiveResult(c)
    \/ Return(c)

ConcNext ==
    \/ \E m \in {"present", "absent", "unreadable"} : mgr = "none" /\ NewInitManager(1, m)
    \/ \E c \in Procs : ConcStep(c)
    \/ \E c \in Procs : DeadlineExceeded(c, 1)
    \/ \E j \in jobs : \E r \in ConcResults : JobRemoved(j, r)

ConcSpec == Init /\ [][ConcNext]_vars

\* ------------------------------------------------------------- properties
StartStop == {"StartService", "StopService"}

\* The frames of SystemCtl's StartService and StopService that are returning
\* after having received a result on their channel.
ReceivedFrames ==
    {f \in UNION {{stack[c][d] : d \in 1..Depth(c)} : c \in Procs} :
        /\ f.be = "SystemCtl"
        /\ f.op \in StartStop
        /\ f.pc = "return"
        /\ f.ch # <<>>}

\* The call goroutine c has returned from, if it is the given method.
Returned(c, be, op) ==
    /\ Depth(c) = 0
    /\ result[c].be = be
    /\ result[c].op = op

\* How many entries of goroutine c's history are the given call.
Count(c, call) == Cardinality({i \in DOMAIN log[c] : log[c][i].call = call})

\* C1: SystemCtl's StartService and StopService return nil for the result
\* "done", the error of its own for each of "canceled", "timeout", "failed",
\* "dependency" and "skipped", and ErrorUnknown for every other string.
C1_ResultTaxonomy ==
    \A f \in ReceivedFrames :
        CASE f.ch[1] = "done" -> f.err = "nil"
          [] f.ch[1] = "canceled" -> f.err = "ErrorCanceled"
          [] f.ch[1] = "timeout" -> f.err = "ErrorTimeout"
          [] f.ch[1] = "failed" -> f.err = "ErrorFailed"
          [] f.ch[1] = "dependency" -> f.err = "ErrorDependency"
          [] f.ch[1] = "skipped" -> f.err = "ErrorSkipped"
          [] OTHER -> f.err = "ErrorUnknown"

\* StopService has received the empty string and returns ErrorUnknown.
C1_Witness ==
    \E f \in ReceivedFrames :
        f.op = "StopService" /\ f.ch[1] = "" /\ f.err = "ErrorUnknown"

\* C2: a StartService or StopService of SystemCtl that is under way always
\* eventually returns, whether or not the daemon delivers a result.
C2_AlwaysReturns ==
    (Depth(1) > 0 /\ Top(1).be = "SystemCtl" /\ Top(1).op \in StartStop)
        ~> (Depth(1) = 0)

\* C5 as amended: NewInitManager returns OpenRc exactly when os.Stat reports
\* that the marker path does not exist, and SystemCtl otherwise: when the
\* path is present and also when the probe fails in another way.
C5_SelectorByNotExist ==
    mgr # "none" => (mgr = "OpenRc" <=> marker = "absent")

\* The probe failed without reporting absence and SystemCtl was returned.
C5_Witness == marker = "unreadable" /\ mgr = "SystemCtl"

\* C5 as claimed: SystemCtl only when the marker path is found present,
\* OpenRc when it is absent or the probe fails.
C5_Original ==
    mgr # "none" => (mgr = "SystemCtl" <=> marker = "present")

\* C8: OpenRc's IsServiceRunning returns (true, nil) when the status command
\* exits zero, (false, nil) when it exits non-zero, and (false, err) with the
\* command's error when it could not be run.
C8_StatusResult ==
    \A c \in Procs :
        (Returned(c, "OpenRc", "IsServiceRunning") /\ Len(log[c]) >= 1) =>
            LET e == log[c][1].err
                r == result[c]
            IN  /\ log[c][1].call = "/sbin/rc-service"
                /\ e = "nil" => (r.val = TRUE /\ r.err = "nil")
                /\ e = "ExitError" => (r.val = FALSE /\ r.err = "nil")
                /\ e = "ErrNotFound" => (r.val = FALSE /\ r.err = "ErrNotFound")

\* The status command exited non-zero and IsServiceRunning returned (false, nil).
C8_Witness ==
    /\ Returned(1, "OpenRc", "IsServiceRunning")
    /\ Len(log[1]) >= 1
    /\ log[1][1].err = "ExitError"
    /\ result[1].val = FALSE
    /\ result[1].err = "nil"

\* C9: every open connection belongs to a SystemCtl call that has not yet
\* returned; none is left open by a call that has returned.
C9_NoConnectionOutlivesItsCall ==
    \A id \in open : \E c \in Procs : \E d \in 1..Depth(c) : stack[c][d].conn = id

\* EnableService has returned the error of the StartService it called, both
\* having connected, and no connection is open.
C9_Witness ==
    /\ Returned(1, "SystemCtl", "EnableService")
    /\ result[1].err = "ErrorFailed"
    /\ Count(1, "NewSystemdConnection") = 2
    /\ open = {}

\* The call goroutine c is in, or has last returned from.
CurOp(c) == IF Depth(c) > 0 THEN stack[c][1] ELSE result[c]

\* The entries of goroutine c's history that are calls of the given method.
Calls(c, method) ==
    {i \in DOMAIN log[c] : log[c][i].call = "call" /\ log[c][i].out = method}

\* The connections goroutine c's call has established.
Connected(c) ==
    {i \in DOMAIN log[c] : log[c][i].call = "NewSystemdConnection" /\ log[c][i].err = "nil"}

\* The entries of the given property read that succeeded, and those of them
\* that read "active".
Reads(c, call) == {i \in DOMAIN log[c] : log[c][i].call = call /\ log[c][i].err = "nil"}
ReadsActive(c, call) == {i \in Reads(c, call) : log[c][i].out = "active"}

\* C3 as amended: a DisableService of SystemCtl whose check of the unit reads
\* "active" calls StopService for the unit once, which makes one StopUnit
\* call if its own connection is established and none if it is not, and the
\* call makes no DisableUnitFiles call; a DisableUnitFiles call is made only
\* after the check has read something other than "active".
C3_DisableStopsActive ==
    \A c \in Procs :
        (CurOp(c).be = "SystemCtl" /\ CurOp(c).op = "DisableService") =>
            /\ ReadsActive(c, "GetUnitProperties") # {} =>
                  /\ Count(c, "DisableUnitFiles") = 0
                  /\ Cardinality(Calls(c, "StopService")) = 1
                  /\ \A i \in Calls(c, "StopService") : log[c][i].arg = CurOp(c).arg
                  /\ Count(c, "StopUnit") <= 1
                  /\ \A i \in DOMAIN log[c] :
                        log[c][i].call = "StopUnit" => log[c][i].arg = CurOp(c).arg
                  /\ Depth(c) = 0 =>
                        (Count(c, "StopUnit") = 1 <=> Cardinality(Connected(c)) = 2)
            /\ Count(c, "DisableUnitFiles") > 0 =>
                  /\ Reads(c, "GetUnitProperties") # {}
                  /\ ReadsActive(c, "GetUnitProperties") = {}
                  /\ Calls(c, "StopService") = {}
                  /\ Count(c, "StopUnit") = 0

\* DisableService has returned after reading "active" and stopping the unit.
C3_Witness ==
    /\ Returned(1, "SystemCtl", "DisableService")
    /\ ReadsActive(1, "GetUnitProperties") # {}
    /\ Count(1, "StopUnit") = 1
    /\ result[1].err = "nil"

\* C3 as claimed: a DisableService whose check reads "active" has made a
\* StopUnit call, and no DisableUnitFiles call, by the time it returns.
C3_Original ==
    \A c \in Procs :
        (Returned(c, "SystemCtl", "DisableService")
         /\ ReadsActive(c, "GetUnitProperties") # {}) =>
            /\ Count(c, "StopUnit") = 1
            /\ Count(c, "DisableUnitFiles") = 0

\* C4 as amended: an EnableService of SystemCtl whose EnableUnitFiles call
\* succeeds and whose read of ActiveState gives something other than
\* "active" calls StartService once before it returns, which makes one
\* StartUnit call if its own connection is established and none if it is
\* not; when the read gives "active", StartService is not called and no
\* StartUnit call is made.
C4_EnableStartsInactive ==
    \A c \in Procs :
        (CurOp(c).be = "SystemCtl" /\ CurOp(c).op = "EnableService") =>
            LET reads == Reads(c, "GetUnitProperty:ActiveState")
                active == ReadsActive(c, "GetUnitProperty:ActiveState")
            IN  /\ (reads # {} /\ active = {}) =>
                      /\ Reads(c, "EnableUnitFiles") # {}
                      /\ Cardinality(Calls(c, "StartService")) = 1
                      /\ \A i \in Calls(c, "StartService") : log[c][i].arg = CurOp(c).arg
                      /\ Count(c, "StartUnit") <= 1
                      /\ Depth(c) = 0 =>
                            (Count(c, "StartUnit") = 1 <=> Cardinality(Connected(c)) = 2)
                /\ active # {} =>
                      /\ Calls(c, "StartService") = {}
                      /\ Count(c, "StartUnit") = 0

\* EnableService has returned after reading "failed" and starting the unit.
C4_Witness ==
    /\ Returned(1, "SystemCtl", "EnableService")
    /\ \E i \in Reads(1, "GetUnitProperty:ActiveState") : log[1][i].out = "failed"
    /\ Count(1, "StartUnit") = 1

\* C4 as claimed: an EnableService whose EnableUnitFiles call succeeds and
\* whose read gives something other than "active" has made exactly one
\* StartUnit call when it returns.
C4_Original ==
    \A c \in Procs :
        (Returned(c, "SystemCtl", "EnableService")
         /\ Reads(c, "EnableUnitFiles") # {}
         /\ Reads(c, "GetUnitProperty:ActiveState") # {}
         /\ ReadsActive(c, "GetUnitProperty:ActiveState") = {}) =>
            Count(c, "StartUnit") = 1

\* The names of the services a ListServices returned.
ReturnedNames(c) == [i \in DOMAIN result[c].services |-> result[c].services[i].Name]

ProbeReturns(c) ==
    SelectSeq(log[c], LAMBDA e : e.call = "return" /\ e.arg = "IsServiceRunning")

\* The status commands goroutine c's ListServices ran, in order.
StatusRuns(c) == SelectSeq(SubSeq(log[c], 2, Len(log[c])),
                           LAMBDA e : e.call = "/sbin/rc-service")

\* C7 as amended: a SystemCtl ListServices that connected and got its listing
\* returns no error whatever its probes return, with Running false for each
\* unit whose probe failed. An OpenRc ListServices reports Running false for
\* a name whose status command exits non-zero, which does not fail the
\* listing, and returns the error, and no services, when a status command
\* could not be run.
C7_ProbeFailures ==
    \A c \in Procs :
        /\ (Returned(c, "SystemCtl", "ListServices")
            /\ Len(log[c]) >= 2 /\ log[c][1].err = "nil" /\ log[c][2].err = "nil") =>
              /\ result[c].err = "nil"
              /\ Len(result[c].services) = Len(ProbeReturns(c))
              /\ \A k \in DOMAIN ProbeReturns(c) :
                    ProbeReturns(c)[k].err # "nil" => ~result[c].services[k].Running
        /\ (Returned(c, "OpenRc", "ListServices")
            /\ Len(log[c]) >= 1 /\ log[c][1].err = "nil") =>
              /\ (\E k \in DOMAIN StatusRuns(c) : StatusRuns(c)[k].err = "ErrNotFound") =>
                    (result[c].err = "ErrNotFound" /\ result[c].services = <<>>)
              /\ (\A k \in DOMAIN StatusRuns(c) : StatusRuns(c)[k].err # "ErrNotFound") =>
                    /\ result[c].err \in {"nil", "ErrBadPattern"}
                    /\ result[c].err = "nil" =>
                          /\ Len(result[c].services) = Len(StatusRuns(c))
                          /\ \A k \in DOMAIN StatusRuns(c) :
                                StatusRuns(c)[k].err = "ExitError" =>
                                    ~result[c].services[k].Running

\* A SystemCtl ListServices has returned two services, the probe of the
\* first having failed.
C7_Witness ==
    /\ Returned(1, "SystemCtl", "ListServices")
    /\ result[1].err = "nil"
    /\ Len(result[1].services) = 2
    /\ Len(ProbeReturns(1)) = 2
    /\ ProbeReturns(1)[1].err # "nil"
    /\ result[1].services[2].Running

\* C7 as claimed: on both backends a ListServices one of whose probes
\* returned an error returns no error itself.
C7_Original ==
    \A c \in Procs :
        (Depth(c) = 0 /\ result[c].op = "ListServices"
         /\ \E k \in DOMAIN ProbeReturns(c) : ProbeReturns(c)[k].err # "nil") =>
            result[c].err = "nil"

\* The command of OpenRc's StartService and StopService.
VerbOf(op) == IF op = "StartService" THEN "start" ELSE "stop"

\* The name ends in ".service" once: what is left without it does not.
SingleSuffix(n) ==
    /\ Len(n) >= Len(Suffix)
    /\ SubSeq(n, Len(n) - Len(Suffix) + 1, Len(n)) = Suffix
    /\ LET m == SubSeq(n, 1, Len(n) - Len(Suffix)) IN
         ~(Len(m) >= Len(Suffix) /\ SubSeq(m, Len(m) - Len(Suffix) + 1, Len(m)) = Suffix)

\* C10 as amended: OpenRc's StartService and StopService, called with a name
\* that ends in ".service" once, run the service command with the arguments
\* they run it with for that name without the suffix, and return the
\* command's error as they do then.
C10_SuffixStripped ==
    \A c \in Procs :
        (CurOp(c).be = "OpenRc" /\ CurOp(c).op \in StartStop
         /\ Len(log[c]) >= 1 /\ SingleSuffix(CurOp(c).arg)) =>
            LET n == CurOp(c).arg
                stripped == SubSeq(n, 1, Len(n) - Len(Suffix))
            IN  /\ log[c][1].call = "/sbin/rc-service"
                /\ log[c][1].arg = RcServiceArgs(stripped, VerbOf(CurOp(c).op))
                /\ log[c][1].arg[2] = stripped
                /\ Depth(c) = 0 => result[c].err = log[c][1].err

\* StartService("a.service") has run the command for "a" and returned.
C10_Witness ==
    /\ Returned(1, "OpenRc", "StartService")
    /\ result[1].arg = <<97>> \o Suffix
    /\ Len(log[1]) >= 1
    /\ log[1][1].arg[2] = <<97>>

\* C10 as claimed: for every name that ends in ".service" the arguments are
\* those for the name without the suffix.
C10_Original ==
    \A c \in Procs :
        (CurOp(c).be = "OpenRc" /\ CurOp(c).op \in StartStop /\ Len(log[c]) >= 1
         /\ Len(CurOp(c).arg) >= Len(Suffix)
         /\ SubSeq(CurOp(c).arg, Len(CurOp(c).arg) - Len(Suffix) + 1, Len(CurOp(c).arg)) = Suffix) =>
            log[c][1].arg =
                RcServiceArgs(SubSeq(CurOp(c).arg, 1, Len(CurOp(c).arg) - Len(Suffix)),
                              VerbOf(CurOp(c).op))

\* The invocations of the selector in goroutine c's history, in order.
Selections(c) == SelectSeq(log[c], LAMBDA e : e.call = "NewInitManager")

\* C11 as amended: every invocation of NewInitManager probes the marker path
\* anew, so two invocations in one process return the same backend kind
\* exactly when os.Stat reports the path absent at both or at neither of
\* them; when the path appears or disappears between them, the kinds differ.
C11_SelectorProbesAnew ==
    \A c \in Procs :
        \A i, j \in DOMAIN Selections(c) :
            (Selections(c)[i].out = Selections(c)[j].out)
                <=> ((Selections(c)[i].arg = "absent") <=> (Selections(c)[j].arg = "absent"))

\* The selector returned SystemCtl with the path present, then OpenRc with
\* the path gone.
C11_Witness ==
    /\ Len(Selections(1)) = 2
    /\ Selections(1)[1].arg = "present" /\ Selections(1)[1].out = "SystemCtl"
    /\ Selections(1)[2].arg = "absent" /\ Selections(1)[2].out = "OpenRc"

\* C11 as claimed: any two invocations of the selector in one process return
\* the same backend kind, whatever happened to the marker path between them.
C11_Original ==
    \A c \in Procs :
        \A i, j \in DOMAIN Selections(c) :
            Selections(c)[i].out = Selections(c)[j].out

\* Goroutine c has returned from the IsServiceRunning it called right after
\* its StartService of the same unit returned nil, the start job having ended
\* "done", and nothing else has happened to the unit.
AfterDoneStart(c) ==
    /\ Returned(c, "SystemCtl", "IsServiceRunning")
    /\ started = <<c, result[c].arg>>

\* C12 as amended: in SystemCtl, an IsServiceRunning(name) called right after
\* StartService(name) returned nil for a job that ended "done", with nothing
\* else happening to the unit, reads "active" and returns (true, nil) if its
\* own connection and its ActiveState read succeed; if one of them fails it
\* returns (false, err) with that error.
C12_RunningAfterStart ==
    \A c \in Procs :
        AfterDoneStart(c) =>
            /\ log[c][1].call = "NewSystemdConnection"
            /\ IF log[c][1].err # "nil"
               THEN result[c].val = FALSE /\ result[c].err = log[c][1].err
               ELSE /\ log[c][2].call = "GetUnitProperty:ActiveState"
                    /\ IF log[c][2].err # "nil"
                       THEN result[c].val = FALSE /\ result[c].err = log[c][2].err
                       ELSE /\ log[c][2].out = "active"
                            /\ result[c].val = TRUE
                            /\ result[c].err = "nil"

\* IsServiceRunning has returned (true, nil) right after the StartService.
C12_Witness ==
    /\ AfterDoneStart(1)
    /\ result[1].val = TRUE
    /\ result[1].err = "nil"

\* C12 as claimed: that IsServiceRunning returns (true, nil).
C12_Original ==
    \A c \in Procs :
        AfterDoneStart(c) => (result[c].val = TRUE /\ result[c].err = "nil")

\* The non-empty strings of a list, in order.
NonEmpty(list) == SelectSeq(list, LAMBDA n : n # <<>>)

\* The lines of the text out: out as a string, split on newline.
Lines(out) == Split(out, 10, 1, <<>>)

\* C13: the names RcServiceList makes of the list command's output are the
\* lines of that output, the bytes taken as text and split on newline: for
\* the output "n1\n...nk\n" they are n1..nk (the empty piece that follows the
\* last newline is left aside here). An OpenRc ListServices with the pattern
\* "" or "*" goes on to probe just the names RcServiceList returned.
C13_ListIsLines ==
    \A c \in Procs :
        (At(c, "OpenRc", {"ListServices"}, "loop")
         /\ Top(c).arg \in {<<>>, <<42>>} /\ Top(c).idx = 1) =>
            NonEmpty(Top(c).files) = NonEmpty(Lines(log[c][1].out))

\* The k-th probe of goroutine c's ListServices made an ActiveState read of
\* the unit that succeeded and reported "active".
ProbeReadActive(c, k, unit) ==
    \E i \in DOMAIN log[c] :
        /\ log[c][i].call = "GetUnitProperty:ActiveState"
        /\ log[c][i].arg = unit
        /\ log[c][i].err = "nil"
        /\ log[c][i].out = "active"
        /\ Cardinality({j \in 1..i : log[c][j].call = "call"}) = k

\* C14: a SystemCtl ListServices whose connection and listing call succeed
\* returns no error and one descriptor for each listed unit file, in the
\* order of the listing: Name is the base name of the file's path, Running
\* is true exactly when the probe of that unit succeeded and read "active".
\* It returns an error, that of the call that failed and no descriptors,
\* only when its connection or its listing call fails.
C14_Descriptors ==
    \A c \in Procs :
        Returned(c, "SystemCtl", "ListServices") =>
            LET r == result[c] IN
            /\ log[c][1].call = "NewSystemdConnection"
            /\ IF log[c][1].err # "nil"
               THEN r.err = log[c][1].err /\ r.services = <<>>
               ELSE /\ log[c][2].call \in {"ListUnitFiles", "ListUnitFilesByPatterns"}
                    /\ IF log[c][2].err # "nil"
                       THEN r.err = log[c][2].err /\ r.services = <<>>
                       ELSE LET files == log[c][2].out IN
                            /\ r.err = "nil"
                            /\ Len(r.services) = Len(files)
                            /\ \A k \in DOMAIN files :
                                  /\ r.services[k].Name = Base(files[k])
                                  /\ r.services[k].Running
                                        <=> ProbeReadActive(c, k, Base(files[k]))

\* ListServices has returned "a", running, and "a.service", whose probe
\* succeeded and read something other than "active".
C14_Witness ==
    /\ Returned(1, "SystemCtl", "ListServices")
    /\ result[1].err = "nil"
    /\ Len(result[1].services) = 2
    /\ result[1].services[1] = [Name |-> <<97>>, Running |-> TRUE]
    /\ result[1].services[2] = [Name |-> <<97>> \o Suffix, Running |-> FALSE]
    /\ Len(ProbeReturns(1)) = 2
    /\ ProbeReturns(1)[2].err = "nil"

\* SystemCtl's methods that change a unit.
Mutating == {"EnableService", "DisableService", "StartService", "StopService"}

\* The method EnableService or DisableService may go on to call.
NestedOf(op) == IF op = "EnableService" THEN "StartService" ELSE "StopService"

\* C15 as amended: SystemCtl's StartService and StopService make one attempt
\* to connect to the daemon and no second one. EnableService and
\* DisableService make one attempt themselves and, when they go on to call
\* StartService or StopService, a second one is made by that call while
\* their own connection is still open: two in all. Every connection
\* established is closed by the time the call returns.
C15_ConnectionsPerCall ==
    \A c \in Procs :
        (CurOp(c).be = "SystemCtl" /\ CurOp(c).op \in Mutating) =>
            LET op == CurOp(c).op
                nested == IF op \in StartStop THEN 0
                          ELSE Cardinality(Calls(c, NestedOf(op)))
            IN  /\ nested <= 1
                /\ Count(c, "NewSystemdConnection") <= 1 + nested
                /\ Depth(c) = 0 => Count(c, "NewSystemdConnection") = 1 + nested
                /\ (Depth(c) = 2 /\ stack[c][2].conn # 0) =>
                      /\ stack[c][1].conn # 0
                      /\ stack[c][1].conn # stack[c][2].conn
                      /\ {stack[c][1].conn, stack[c][2].conn} \subseteq open
                /\ (\A d \in Procs : Depth(d) = 0) => open = {}

\* DisableService has returned nil after its StopService connected too: two
\* connections were made and none is open.
C15_Witness ==
    /\ Returned(1, "SystemCtl", "DisableService")
    /\ result[1].err = "nil"
    /\ Cardinality(Connected(1)) = 2
    /\ Cardinality(Calls(1, "StopService")) = 1
    /\ open = {}

\* C15 as claimed: each of the four calls makes one connection, and none
\* makes a second.
C15_Original ==
    \A c \in Procs :
        (CurOp(c).be = "SystemCtl" /\ CurOp(c).op \in Mutating) =>
            /\ Count(c, "NewSystemdConnection") <= 1
            /\ Depth(c) = 0 => Count(c, "NewSystemdConnection") = 1

\* In goroutine c's history: the results the daemon gave the jobs it
\* requested, and the results it received on its channel.
Outcomes(c) == SelectSeq(log[c], LAMBDA e : e.call = "JobRemoved")
Received(c) == SelectSeq(log[c], LAMBDA e : e.call = "<-ch")

\* The requests of goroutine c's call that the daemon accepted.
Accepted(c) ==
    {i \in DOMAIN log[c] : log[c][i].call \in {"StartUnit", "StopUnit"} /\ log[c][i].err = "nil"}

\* C16: when two goroutines run SystemCtl's StartService and StopService at
\* the same time, on the same unit or on different ones, and the daemon
\* finishes the jobs in any order, each call receives at most one result,
\* the one the daemon gave its own job: a result is delivered to the channel
\* of the call that requested the job and to no other, it stays there until
\* that call receives it, and the call returns the error of that result.
\* The two calls hold different connections.
C16_OwnOutcome ==
    \A c \in Procs :
        (CurOp(c).be = "SystemCtl" /\ CurOp(c).op \in StartStop) =>
            /\ Len(Outcomes(c)) <= 1
            /\ Len(Received(c)) <= 1
            /\ Outcomes(c) # <<>> => Accepted(c) # {}
            /\ Received(c) # <<>> =>
                  /\ Outcomes(c) # <<>>
                  /\ Received(c)[1].out = Outcomes(c)[1].out
                  /\ Outcomes(c)[1].arg = CurOp(c).arg
            /\ (Outcomes(c) # <<>> /\ Received(c) = <<>>) =>
                  /\ Depth(c) = 1
                  /\ Top(c).pc = "wait"
                  /\ Top(c).ch = <<Outcomes(c)[1].out>>
            /\ (Outcomes(c) = <<>> /\ Depth(c) = 1) => Top(c).ch = <<>>
            /\ (Depth(c) = 0 /\ Accepted(c) # {}) =>
                  /\ Len(Received(c)) = 1
                  /\ result[c].err = JobError(Received(c)[1].out)
            /\ \A d \in Procs \ {c} :
                  (Depth(c) = 1 /\ Depth(d) = 1 /\ Top(c).conn # 0) =>
                      Top(c).conn # Top(d).conn

\* Both goroutines wait, on the same unit, and the daemon has finished both
\* jobs: the first goroutine's start has failed, the second's stop is done.
C16_Witness ==
    /\ At(1, "SystemCtl", {"StartService"}, "wait")
    /\ At(2, "SystemCtl", {"StopService"}, "wait")
    /\ Top(1).arg = Top(2).arg
    /\ Top(1).ch = <<ResultFailed>>
    /\ Top(2).ch = <<ResultDone>>
    /\ jobs = {}

\* An entry of a history that is a connection attempt or a remote call.
IsRemote(e) ==
    e.call \in {"NewSystemdConnection", "ListUnitFiles", "ListUnitFilesByPatterns",
                "GetUnitProperty:UnitFileState", "GetUnitProperty:ActiveState",
                "GetUnitProperties", "EnableUnitFiles", "DisableUnitFiles",
                "StartUnit", "StopUnit", "Reload"}

\* The connection attempts and remote calls of goroutine c's call that failed.
Failures(c) == {i \in DOMAIN log[c] : IsRemote(log[c][i]) /\ log[c][i].err # "nil"}

\* After entry i, goroutine c's call has only returned, with entry i's error.
OnlyReturnsAfter(c, i) ==
    /\ \A j \in (i + 1)..Len(log[c]) :
          log[c][j].call = "return" /\ log[c][j].err = log[c][i].err
    /\ Depth(c) > 0 => Top(c).pc = "return" /\ Top(c).err = log[c][i].err
    /\ Depth(c) = 0 => result[c].err = log[c][i].err

\* C17 as amended: in SystemCtl, the method whose connection attempt or
\* remote call fails returns that error at once, with no wait on its channel
\* and no further remote call, and so does the method that called it, up to
\* the caller of the operation; nothing is retried. The one exception is
\* ListServices: the error of a probe (the IsServiceRunning it calls for a
\* unit, which itself returns the error at once) is not returned by
\* ListServices, which goes on to probe the next unit. A failure of
\* ListServices' own connection or listing call is returned at once.
C17_FailFast ==
    \A c \in Procs :
        CurOp(c).be = "SystemCtl" =>
            \A i \in Failures(c) :
                /\ i < Len(log[c]) =>
                      /\ log[c][i + 1].call = "return"
                      /\ log[c][i + 1].err = log[c][i].err
                /\ i = Len(log[c]) =>
                      /\ Top(c).pc = "return"
                      /\ Top(c).err = log[c][i].err
                /\ (CurOp(c).op # "ListServices" \/ i <= 2) => OnlyReturnsAfter(c, i)

\* EnableService has returned the error of its EnableUnitFiles call, having
\* made no call after it.
C17_Witness ==
    /\ Returned(1, "SystemCtl", "EnableService")
    /\ Len(log[1]) = 3
    /\ log[1][2].call = "EnableUnitFiles"
    /\ log[1][2].err = "ErrRemote"
    /\ log[1][3].call = "return"
    /\ result[1].err = "ErrRemote"

\* C17 as claimed: after a failed connection attempt or remote call, the
\* operation makes no further remote call and returns that error.
C17_Original ==
    \A c \in Procs :
        CurOp(c).be = "SystemCtl" => \A i \in Failures(c) : OnlyReturnsAfter(c, i)

\* The errors that stand for job outcomes.
TypedErrors ==
    {"ErrorCanceled", "ErrorTimeout", "ErrorFailed", "ErrorDependency",
     "ErrorSkipped", ErrorUnknown}

\* What the calls of the given method made in goroutine c's call returned.
ReturnsOf(c, method) ==
    SelectSeq(log[c], LAMBDA e : e.call = "return" /\ e.arg = method)

\* C18 as amended: an error that stands for a job outcome comes from
\* SystemCtl's StartService or StopService, for the result received on its
\* channel. SystemCtl's EnableService and DisableService return such an
\* error too, exactly when the StartService or StopService they called
\* returned it. No other method of SystemCtl and no method of OpenRc returns
\* one.
C18_TypedErrorOrigin ==
    \A c \in Procs :
        /\ \A d \in 1..Depth(c) :
              stack[c][d].err \in TypedErrors =>
                  /\ stack[c][d].be = "SystemCtl"
                  /\ stack[c][d].op \in Mutating
        /\ (Depth(c) = 0 /\ result[c].op \in Ops) =>
              LET r == result[c] IN
              IF r.be = "SystemCtl" /\ r.op \in StartStop
              THEN r.err \in TypedErrors <=>
                      (Received(c) # <<>> /\ Received(c)[1].out # ResultDone)
              ELSE IF r.be = "SystemCtl" /\ r.op \in {"EnableService", "DisableService"}
              THEN r.err \in TypedErrors <=>
                      /\ ReturnsOf(c, NestedOf(r.op)) # <<>>
                      /\ ReturnsOf(c, NestedOf(r.op))[1].err = r.err
                      /\ Received(c) # <<>>
                      /\ Received(c)[1].out # ResultDone
              ELSE r.err \notin TypedErrors

\* DisableService has returned ErrorTimeout, the error of its StopService.
C18_Witness ==
    /\ Returned(1, "SystemCtl", "DisableService")
    /\ result[1].err = "ErrorTimeout"
    /\ ReturnsOf(1, "StopService") # <<>>
    /\ ReturnsOf(1, "StopService")[1].err = "ErrorTimeout"

\* C18 as claimed: only SystemCtl's StartService and StopService return an
\* error that stands for a job outcome.
C18_Original ==
    \A c \in Procs :
        (Depth(c) = 0 /\ result[c].err \in TypedErrors) =>
            (result[c].be = "SystemCtl" /\ result[c].op \in StartStop)

\* C19: SystemCtl's EnableService returns nil only if its EnableUnitFiles
\* call succeeded and, after it, either its ActiveState read succeeded and
\* gave "active" or the StartService it called received the result "done";
\* in every other case it returns an error. (And in those cases it does
\* return nil.)
C19_EnableNilOnlyIf ==
    \A c \in Procs :
        Returned(c, "SystemCtl", "EnableService") =>
            (result[c].err = "nil" <=>
                /\ \E i \in Reads(c, "EnableUnitFiles") :
                      \/ \E j \in ReadsActive(c, "GetUnitProperty:ActiveState") : j > i
                      \/ /\ \E j \in Calls(c, "StartService") : j > i
                         /\ Received(c) # <<>>
                         /\ Received(c)[1].out = ResultDone)

\* EnableService has returned nil after the start job it requested, the
\* unit read as "inactive", had ended "done".
C19_Witness ==
    /\ Returned(1, "SystemCtl", "EnableService")
    /\ result[1].err = "nil"
    /\ \E i \in Reads(1, "GetUnitProperty:ActiveState") : log[1][i].out = "inactive"
    /\ Received(1) # <<>>
    /\ Received(1)[1].out = ResultDone

====
